---- MODULE Spec2Model ----
(***************************************************************************)
(* Task / User domain model and repositories of the short-course project.  *)
(*                                                                         *)
(*   Task            src/enhanced-task-model.js                            *)
(*   TaskRepository  src/task-repository.js  (Map of Task objects)         *)
(*   User            src/unnamed/part_003    (lines 120-224)               *)
(*   UserRepository  src/unnamed/part_003    (lines 538-785)               *)
(*   EnhancedTask    src/unnamed/part_003    (lines 260-504)               *)
(*   TaskRepository  src/unnamed/part_003    (lines 807-1182, the guide's) *)
(*   TaskService     src/day2-complete-app.js                              *)
(*                                                                         *)
(* JavaScript values are represented as follows.                           *)
(*   string   a sequence of one-character strings, so that trim() and      *)
(*            toLowerCase() are computed and not assumed                   *)
(*   null     the empty sequence Null; a present number or Date d is <<d>> *)
(*   Date     an integer count of clock ticks, TicksPerDay ticks to a day  *)
(*   object   a record; Task objects live in heap and are referred to by   *)
(*            their index, so that the Map and its callers share them      *)
(*   Map      a sequence of [v, k] entries in insertion order              *)
(*   storage  the adapter handed to the TaskRepository constructor: what   *)
(*            its save() stored last, and whether save() currently throws  *)
(*                                                                         *)
(* Record constructors list their fields in the order in which TLC keeps   *)
(* them, which is the order of first mention in the module.                *)
(***************************************************************************)
EXTENDS Integers, Sequences, FiniteSets, TLC

VARIABLES
    heap,     \* Task objects ever constructed, by reference
    tasks,    \* TaskRepository.tasks: Map id -> Task reference
    now,      \* the clock read by new Date()
    last,     \* the call that produced this state and its outcome
    users,    \* UserRepository.users: Map id -> User
    ulast,    \* the UserRepository call that produced this state
    storage,  \* TaskRepository.storage: the adapter and the data it holds
    listeners,\* TaskRepository.listeners: the events a recording callback is on
    events,   \* what the recording callbacks were called with, in order
    pending   \* the data handed to the adapter's save and not yet written

vars == <<heap, tasks, now, last, users, ulast, storage, listeners, events, pending>>

\* ---------------------------------------------------------------- bounds
MaxTasks == 2
MaxObjects == 1
MaxTime == 2
MaxHours == 2
MaxUsers == 2

\* events the recording callbacks keep
MaxEvents == 2

\* saves the adapter has in progress
MaxPending == 2

\* ------------------------------------------------------------ JS values
Null == <<>>

Some(v) == <<v>>

Val(m) == m[1]

\* a || b on a nullable number: null and 0 are falsy
OrElse(m, d) == IF m = Null \/ Val(m) = 0 THEN d ELSE m

TicksPerDay == 2

\* Date.setHours(0, 0, 0, 0): the first tick of the day
StartOfDay(t) == t - (t % TicksPerDay)

IsSpace(c) == c = " "

LowerChar(c) ==
    CASE c = "A" -> "a"
      [] c = "B" -> "b"
      [] c = "W" -> "w"
      [] OTHER -> c

\* String.prototype.toLowerCase
ToLower(s) == [i \in 1..Len(s) |-> LowerChar(s[i])]

RECURSIVE TrimLeft(_)
TrimLeft(s) ==
    IF s # <<>> /\ IsSpace(Head(s)) THEN TrimLeft(Tail(s)) ELSE s

RECURSIVE TrimRight(_)
TrimRight(s) ==
    IF s # <<>> /\ IsSpace(s[Len(s)]) THEN TrimRight(SubSeq(s, 1, Len(s) - 1)) ELSE s

\* String.prototype.trim
Trim(s) == TrimRight(TrimLeft(s))

\* Array.prototype.includes
Includes(arr, x) == \E i \in 1..Len(arr) : arr[i] = x

\* Array.prototype.indexOf, 0 when absent (JS: -1)
IndexOf(arr, x) ==
    IF Includes(arr, x) THEN CHOOSE i \in 1..Len(arr) : arr[i] = x /\ \A j \in 1..(i - 1) : arr[j] # x
    ELSE 0

\* Array.prototype.splice(index, 1)
RemoveAt(arr, i) == SubSeq(arr, 1, i - 1) \o SubSeq(arr, i + 1, Len(arr))

\* ------------------------------------------------------------ Task entity
validPriorities == {"low", "medium", "high", "urgent"}

validStatuses == {"pending", "in-progress", "completed", "cancelled", "on-hold"}

validatePriorityThrows(priority) == priority \notin validPriorities

normalizeCategory(category) == ToLower(Trim(category))

\* !title || title.trim() === ''
BlankString(s) == s = <<>> \/ Trim(s) = <<>>

General == <<"g", "e", "n", "e", "r", "a", "l">>

\* options.priority || 'medium'; an absent option is the empty string
PriorityOption(options) == IF options.priority = "" THEN "medium" ELSE options.priority

\* options.category || 'general'
CategoryOption(options) == IF options.category = <<>> THEN General ELSE options.category

ConstructorThrows(title, userId, options) ==
    \/ BlankString(title)
    \/ BlankString(userId)
    \/ validatePriorityThrows(PriorityOption(options))

\* new Task(title, description, userId, options) with id the generated id
NewTaskObject(id, title, description, userId, options, t) ==
    [ priority       |-> PriorityOption(options),
      category       |-> normalizeCategory(CategoryOption(options)),
      title          |-> Trim(title),
      userId         |-> Trim(userId),
      id             |-> id,
      description    |-> Trim(description),
      assignedTo     |-> IF options.assignedTo = <<>> THEN userId ELSE options.assignedTo,
      completed      |-> FALSE,
      status         |-> "pending",
      completedAt    |-> Null,
      createdAt      |-> t,
      updatedAt      |-> t,
      dueDate        |-> options.dueDate,
      estimatedHours |-> OrElse(options.estimatedHours, Null),
      actualHours    |-> OrElse(options.actualHours, Null),
      tags           |-> <<>>,
      notes          |-> <<>>,
      dependencies   |-> <<>> ]

markComplete(task, t) ==
    IF ~task.completed
    THEN [task EXCEPT !.completed = TRUE, !.status = "completed",
                      !.completedAt = Some(t), !.updatedAt = t]
    ELSE task

markIncomplete(task, t) ==
    IF task.completed
    THEN [task EXCEPT !.completed = FALSE, !.status = "pending",
                      !.completedAt = Null, !.updatedAt = t]
    ELSE task

setStatusThrows(status) == status \notin validStatuses

setStatus(task, status, t) ==
    LET assigned == [task EXCEPT !.status = status]
        synced == IF status = "completed" /\ ~assigned.completed THEN markComplete(assigned, t)
                  ELSE IF status # "completed" /\ assigned.completed THEN markIncomplete(assigned, t)
                  ELSE assigned
    IN  [synced EXCEPT !.updatedAt = t]

updatePriority(task, newPriority, t) ==
    [task EXCEPT !.priority = newPriority, !.updatedAt = t]

addTagThrows(tag) == BlankString(tag)

addTag(task, tag, t) ==
    LET normalizedTag == ToLower(Trim(tag))
    IN  IF ~Includes(task.tags, normalizedTag)
        THEN [task EXCEPT !.tags = Append(@, normalizedTag), !.updatedAt = t]
        ELSE task

removeTag(task, tag, t) ==
    LET normalizedTag == ToLower(Trim(tag))
        index == IndexOf(task.tags, normalizedTag)
    IN  IF index > 0
        THEN [task EXCEPT !.tags = RemoveAt(@, index), !.updatedAt = t]
        ELSE task

\* dueDate is null or a valid Date
setDueDate(task, dueDate, t) ==
    [task EXCEPT !.dueDate = dueDate, !.updatedAt = t]

\* get isOverdue, evaluated at time t
isOverdue(task, t) ==
    IF task.dueDate = Null \/ task.completed THEN FALSE
    ELSE StartOfDay(Val(task.dueDate)) < StartOfDay(t)

\* EnhancedTask's get isOverdue, evaluated at time t: new Date() > dueDate
EnhancedTaskIsOverdue(task, t) ==
    IF task.dueDate = Null \/ task.status = "completed" THEN FALSE
    ELSE t > Val(task.dueDate)

\* hours is null or a number
HoursThrows(hours) == hours # Null /\ Val(hours) < 0

setEstimatedHours(task, hours, t) ==
    [task EXCEPT !.estimatedHours = hours, !.updatedAt = t]

setActualHours(task, hours, t) ==
    [task EXCEPT !.actualHours = hours, !.updatedAt = t]

\* hours is a number
addTimeSpentThrows(hours) == hours < 0

addTimeSpent(task, hours, t) ==
    [task EXCEPT !.actualHours = Some(Val(OrElse(@, Some(0))) + hours), !.updatedAt = t]

\* a faulty guard that lets a task depend on itself
addDependencyNeverThrows(task, taskId) == FALSE

\* taskId === this.id
addDependencyThrows(task, taskId) == taskId = task.id

\* get dependencies / get notes: a copy of the private array, [...this._x]
CopyOf(arr) == arr

\* set dependencies / set notes: a copy of the array given
setDependencies(task, value) == [task EXCEPT !.dependencies = CopyOf(value)]

setNotes(task, value) == [task EXCEPT !.notes = CopyOf(value)]

\* this.dependencies.push(taskId) pushes onto the copy the getter returns and
\* the copy is dropped: the private array stays as it was
addDependency(task, taskId, t) ==
    LET pushed == Append(CopyOf(task.dependencies), taskId)
    IN  IF ~Includes(CopyOf(task.dependencies), taskId)
        THEN [task EXCEPT !.updatedAt = t]
        ELSE task

\* this.dependencies.splice(index, 1) splices the copy the getter returns
removeDependency(task, taskId, t) ==
    LET index == IndexOf(CopyOf(task.dependencies), taskId)
        spliced == RemoveAt(CopyOf(task.dependencies), index)
    IN  IF index > 0
        THEN [task EXCEPT !.updatedAt = t]
        ELSE task

\* !content || content.trim() === ''
addNoteThrows(content) == BlankString(content)

\* the note record addNote builds, with id the generated id
NewNote(id, content, author, t) ==
    [id |-> id, createdAt |-> t, content |-> Trim(content), author |-> author]

\* this.notes.push(note) pushes onto the copy the getter returns
addNote(task, id, content, author, t) ==
    LET pushed == Append(CopyOf(task.notes), NewNote(id, content, author, t))
    IN  [task EXCEPT !.updatedAt = t]

\* this.notes.findIndex(note => note.id === noteId), 0 when absent (JS: -1)
FindNoteIndex(notes, noteId) ==
    IF \E i \in 1..Len(notes) : notes[i].id = noteId
    THEN CHOOSE i \in 1..Len(notes) :
            notes[i].id = noteId /\ \A j \in 1..(i - 1) : notes[j].id # noteId
    ELSE 0

\* this.notes.splice(index, 1) splices the copy the getter returns
removeNote(task, noteId, t) ==
    LET index == FindNoteIndex(CopyOf(task.notes), noteId)
        spliced == RemoveAt(CopyOf(task.notes), index)
    IN  IF index > 0
        THEN [task EXCEPT !.updatedAt = t]
        ELSE task

\* toJSON(): a plain projection; the three collections are copied
toJSON(task) ==
    [ priority       |-> task.priority,
      category       |-> task.category,
      title          |-> task.title,
      userId         |-> task.userId,
      id             |-> task.id,
      description    |-> task.description,
      assignedTo     |-> task.assignedTo,
      completed      |-> task.completed,
      status         |-> task.status,
      completedAt    |-> task.completedAt,
      createdAt      |-> task.createdAt,
      updatedAt      |-> task.updatedAt,
      dueDate        |-> task.dueDate,
      estimatedHours |-> task.estimatedHours,
      actualHours    |-> task.actualHours,
      tags           |-> task.tags,
      notes          |-> task.notes,
      dependencies   |-> task.dependencies ]

JSONOptions(json) ==
    [ priority       |-> json.priority,
      category       |-> json.category,
      assignedTo     |-> json.assignedTo,
      dueDate        |-> json.dueDate,
      estimatedHours |-> json.estimatedHours,
      actualHours    |-> json.actualHours ]

fromJSONThrows(json) == ConstructorThrows(json.title, json.userId, JSONOptions(json))

\* Task.fromJSON(json): the constructor at time t with a generated id, then
\* the restored properties
fromJSON(json, generatedId, t) ==
    LET task == NewTaskObject(generatedId, json.title, json.description, json.userId,
                              JSONOptions(json), t)
    IN  [task EXCEPT !.id = json.id,
                     !.completed = json.completed,
                     !.status = json.status,
                     !.completedAt = json.completedAt,
                     !.createdAt = json.createdAt,
                     !.updatedAt = json.updatedAt,
                     !.tags = json.tags,
                     !.notes = json.notes,
                     !.dependencies = json.dependencies]

\* --------------------------------------------------------- TaskRepository
\* Map.prototype.has
MapHas(m, k) == \E i \in 1..Len(m) : m[i].k = k

\* Map.prototype.get; 0 stands for undefined
MapGet(m, k) ==
    IF MapHas(m, k) THEN (CHOOSE e \in {m[i] : i \in 1..Len(m)} : e.k = k).v ELSE 0

\* Map.prototype.set: an existing key keeps its position
MapSet(m, k, v) ==
    IF MapHas(m, k) THEN [i \in 1..Len(m) |-> IF m[i].k = k THEN [v |-> v, k |-> k] ELSE m[i]]
    ELSE Append(m, [v |-> v, k |-> k])

\* Map.prototype.delete
MapDelete(m, k) == SelectSeq(m, LAMBDA e : e.k # k)

\* a faulty update that ignores the title passed to it
AssignUpdatesKeepingTitle(task, updates, t) ==
    [[f \in DOMAIN task |-> IF f \in DOMAIN updates \ {"title"} THEN updates[f] ELSE task[f]]
        EXCEPT !.updatedAt = t]

\* Object.assign(task, updates) followed by task.updatedAt = new Date(); the
\* setters of tags, notes and dependencies copy the array they are given
AssignUpdates(task, updates, t) ==
    [[f \in DOMAIN task |-> IF f \in DOMAIN updates THEN updates[f] ELSE task[f]]
        EXCEPT !.updatedAt = t]

\* emit(event, data): the callbacks registered for the event are called; the
\* recording callback appends what it was called with
emit(event, id) ==
    IF event \in listeners THEN Append(events, [id |-> id, event |-> event]) ELSE events

\* Array.from(m.values()).map(task => task.toJSON()) over the objects of h
Serialized(h, m) == [i \in 1..Len(m) |-> toJSON(h[m[i].v])]

\* the adapter's save(data) throws
saveThrows == storage.failing

\* saveToStorage(): the whole collection is serialised and handed to the
\* adapter's save; an error of save is wrapped and thrown again
saveToStorageThrows == ~storage.configured \/ saveThrows

\* a faulty save that writes only while the adapter holds nothing
saveToStorageOnce(h, m, t) ==
    IF saveToStorageThrows \/ storage.data # Null THEN storage
    ELSE [storage EXCEPT !.data = Some([tasks |-> Serialized(h, m), lastSaved |-> t])]

saveToStorage(h, m, t) ==
    IF saveToStorageThrows THEN storage
    ELSE [storage EXCEPT !.data = Some([tasks |-> Serialized(h, m), lastSaved |-> t])]

\* if (this.storage) await this.saveToStorage()
SaveIfStorage(h, m, t) == IF storage.configured THEN saveToStorage(h, m, t) ELSE storage

SaveIfStorageThrows == storage.configured /\ saveToStorageThrows

\* data.tasks.forEach(...): the records fromJSON accepts before the first one
\* it throws on
RECURSIVE LoadablePrefix(_)
LoadablePrefix(records) ==
    IF records = <<>> \/ fromJSONThrows(Head(records)) THEN <<>>
    ELSE <<Head(records)>> \o LoadablePrefix(Tail(records))

\* this.tasks.set(task.id, task) for the n objects of h after the first base
RECURSIVE SetLoaded(_, _, _)
SetLoaded(h, base, n) ==
    IF n = 0 THEN <<>> ELSE MapSet(SetLoaded(h, base, n - 1), h[base + n].id, base + n)

\* loadFromStorage() throws: no adapter, or fromJSON threw on a record
loadFromStorageThrows ==
    \/ ~storage.configured
    \/ /\ storage.data # Null
       /\ \E i \in 1..Len(Val(storage.data).tasks) : fromJSONThrows(Val(storage.data).tasks[i])

\* a faulty create that accepts an id the Map already has
createNeverThrows(task) == FALSE

\* create(task) throws: the id is already a key (every Task object has an id,
\* so 'Valid task object required' is not thrown)
createThrows(task) == MapHas(tasks, task.id)

\* findById(taskId): the Task reference, 0 for null
findById(taskId) == MapGet(tasks, taskId)

\* getAllTasks(): Array.from(this.tasks.values())
getAllTasks == [i \in 1..Len(tasks) |-> heap[tasks[i].v]]

getTasksByUser(userId) == SelectSeq(getAllTasks, LAMBDA task : task.userId = userId)

\* the values the sort comparator computes with: a number n, Infinity, or NaN
Num(n) == [n |-> n, kind |-> "number"]

Infinity == [n |-> 1, kind |-> "Infinity"]

NaN == [n |-> 0, kind |-> "NaN"]

\* Number(s) for a string of letters, as the titles are
StringToNumber(s) == NaN

\* priorityOrder[priority] || 0
priorityOrder(priority) ==
    CASE priority = "low" -> 1
      [] priority = "medium" -> 2
      [] priority = "high" -> 3
      [] priority = "urgent" -> 4
      [] OTHER -> 0

\* aValue (or bValue) of the comparator of getTasksByFilter
SortValue(task, sortBy) ==
    CASE sortBy = "title" -> StringToNumber(ToLower(task.title))
      [] sortBy = "priority" -> Num(priorityOrder(task.priority))
      [] sortBy = "dueDate" -> IF task.dueDate # Null THEN Num(Val(task.dueDate)) ELSE Infinity
      [] sortBy = "createdAt" -> Num(task.createdAt)
      [] sortBy = "updatedAt" -> Num(task.updatedAt)

\* x - y, as sort() reads it: its sign, and 0 for NaN
Minus(x, y) ==
    IF x.kind = "NaN" \/ y.kind = "NaN" THEN 0
    ELSE IF x.kind = "Infinity" THEN (IF y.kind = "Infinity" THEN 0 ELSE 1)
    ELSE IF y.kind = "Infinity" THEN -1
    ELSE x.n - y.n

\* the comparator of getTasksByFilter
Compare(a, b, filter) ==
    IF filter.sortBy \notin {"title", "priority", "dueDate", "createdAt", "updatedAt"} THEN 0
    ELSE IF filter.sortOrder = "desc"
    THEN Minus(SortValue(b, filter.sortBy), SortValue(a, filter.sortBy))
    ELSE Minus(SortValue(a, filter.sortBy), SortValue(b, filter.sortBy))

\* Array.prototype.sort with that comparator: a stable sort
RECURSIVE SortInsert(_, _, _)
SortInsert(sorted, task, filter) ==
    IF sorted # <<>> /\ Compare(sorted[Len(sorted)], task, filter) > 0
    THEN Append(SortInsert(SubSeq(sorted, 1, Len(sorted) - 1), task, filter), sorted[Len(sorted)])
    ELSE Append(sorted, task)

RECURSIVE Sort(_, _)
Sort(arr, filter) ==
    IF arr = <<>> THEN <<>>
    ELSE SortInsert(Sort(SubSeq(arr, 1, Len(arr) - 1), filter), arr[Len(arr)], filter)

\* getTasksByFilter(filter) for a filter of userId, sortBy and sortOrder; an
\* absent userId or sortBy is the empty value
getTasksByFilter(filter) ==
    LET selected == IF filter.userId # Null THEN getTasksByUser(filter.userId) ELSE getAllTasks
    IN  IF filter.sortBy # "" THEN Sort(selected, filter) ELSE selected

\* the statuses counted by the status breakdown of getTaskStats
statsStatuses == {"pending", "in-progress", "completed", "cancelled", "on-hold"}

\* tasks.filter(pred).length, with keep the indices of the tasks pred accepts
FilterLength(keep) == Cardinality(keep)

\* getTaskStats(userId), userId Null for all tasks
getTaskStats(userId) ==
    LET selected == IF userId # Null THEN getTasksByUser(Val(userId)) ELSE getAllTasks
        at == 1..Len(selected)
    IN  [ completed  |-> FilterLength({i \in at : selected[i].completed}),
          total      |-> Len(selected),
          incomplete |-> FilterLength({i \in at : ~selected[i].completed}),
          overdue    |-> FilterLength({i \in at : isOverdue(selected[i], now)}),
          byPriority |-> [p \in validPriorities |->
                             FilterLength({i \in at : selected[i].priority = p})],
          byStatus   |-> [s \in statsStatuses |->
                             FilterLength({i \in at : selected[i].status = s})] ]

\* ---------------------------- TaskService (src/day2-complete-app.js) over
\* the repository it is written against (src/mvc-implementation-guide.md)
\* findAll(options) for options of userId, completed, priority and category;
\* an absent userId or category is the empty string, an absent completed
\* Null, an absent priority ""
findAll(options) ==
    LET byUser == IF options.userId # <<>>
                  THEN SelectSeq(getAllTasks, LAMBDA task : task.userId = options.userId)
                  ELSE getAllTasks
        byCompleted == IF options.completed # Null
                       THEN SelectSeq(byUser, LAMBDA task : task.completed = Val(options.completed))
                       ELSE byUser
        byPriority == IF options.priority # ""
                      THEN SelectSeq(byCompleted, LAMBDA task : task.priority = options.priority)
                      ELSE byCompleted
    IN  IF options.category # <<>>
        THEN SelectSeq(byPriority, LAMBDA task : task.category = options.category)
        ELSE byPriority

FindOptions(userId, completed, priority, category) ==
    [priority |-> priority, category |-> category, userId |-> userId, completed |-> completed]

\* findOverdue() at time t: of all tasks, those not completed whose due date
\* is before t
findOverdue(t) ==
    SelectSeq(findAll(FindOptions(<<>>, Null, "", <<>>)),
              LAMBDA task : ~task.completed /\ task.dueDate # Null /\ Val(task.dueDate) < t)

\* s.includes(q) for strings
StringIncludes(s, q) ==
    \E i \in 0..(Len(s) - Len(q)) : SubSeq(s, i + 1, i + Len(q)) = q

\* the queries of TaskService that take a userId
getTasksForUser(userId) == findAll(FindOptions(userId, Null, "", <<>>))

getPendingTasks(userId) == findAll(FindOptions(userId, Some(FALSE), "", <<>>))

getCompletedTasks(userId) == findAll(FindOptions(userId, Some(TRUE), "", <<>>))

getOverdueTasks(userId) == findOverdue(now)

getTasksByPriority(userId, priority) == findAll(FindOptions(userId, Null, priority, <<>>))

getTasksByCategory(userId, category) == findAll(FindOptions(userId, Null, "", category))

searchTasks(userId, query) ==
    SelectSeq(findAll(FindOptions(userId, Null, "", <<>>)),
              LAMBDA task :
                  \/ StringIncludes(ToLower(task.title), ToLower(query))
                  \/ StringIncludes(ToLower(task.description), ToLower(query))
                  \/ \E i \in 1..Len(task.tags) :
                        StringIncludes(ToLower(task.tags[i]), ToLower(query)))

\* what the query op of TaskService returns for userId and its second argument
ServiceResult(op, userId, value) ==
    CASE op = "getTasksForUser" -> getTasksForUser(userId)
      [] op = "getPendingTasks" -> getPendingTasks(userId)
      [] op = "getCompletedTasks" -> getCompletedTasks(userId)
      [] op = "getOverdueTasks" -> getOverdueTasks(userId)
      [] op = "getTasksByPriority" -> getTasksByPriority(userId, value)
      [] op = "getTasksByCategory" -> getTasksByCategory(userId, value)
      [] op = "searchTasks" -> searchTasks(userId, value)

\* ----------------------------- EnhancedTask and the guide's TaskRepository
\* (src/unnamed/part_003: a Map of EnhancedTask objects over a storage
\* manager; its objects live in heap and its Map is tasks, as above)
validCategories == {"work", "personal", "study", "health", "finance", "other"}

enhancedStatuses == {"pending", "in-progress", "blocked", "completed", "cancelled"}

\* options.x || d for a string option: undefined and '' are falsy
StringOr(value, default) == IF value = "" THEN default ELSE value

\* new EnhancedTask(title, description, ownerId, options) throws
EnhancedTaskThrows(title, ownerId, options) ==
    \/ BlankString(title)
    \/ ownerId = <<>>
    \/ StringOr(options.category, "personal") \notin validCategories
    \/ StringOr(options.priority, "medium") \notin validPriorities
    \/ StringOr(options.status, "pending") \notin enhancedStatuses

\* new EnhancedTask(title, description, ownerId, options) with _id the generated id
NewEnhancedTask(id, title, description, ownerId, options, t) ==
    [ priority       |-> StringOr(options.priority, "medium"),
      category       |-> StringOr(options.category, "personal"),
      title          |-> Trim(title),
      id             |-> id,
      description    |-> Trim(description),
      status         |-> StringOr(options.status, "pending"),
      completedAt    |-> Null,
      createdAt      |-> t,
      updatedAt      |-> t,
      ownerId        |-> ownerId ]

\* the properties update() looks at, in the order in which it applies them
updateOrder == <<"title", "description", "category", "priority", "status">>

\* task.updateTitle / updateCategory / updatePriority / updateStatus throw
\* on the value; updateDescription takes every value
updateFieldThrows(field, value) ==
    CASE field = "title" -> BlankString(value)
      [] field = "description" -> FALSE
      [] field = "category" -> value \notin validCategories
      [] field = "priority" -> value \notin validPriorities
      [] field = "status" -> value \notin enhancedStatuses

\* the EnhancedTask method update() calls for one property, at time t
updateField(task, field, value, t) ==
    CASE field = "title" -> [task EXCEPT !.title = Trim(value), !.updatedAt = t]
      [] field = "description" -> [task EXCEPT !.description = Trim(value), !.updatedAt = t]
      [] field = "category" -> [task EXCEPT !.category = value, !.updatedAt = t]
      [] field = "priority" -> [task EXCEPT !.priority = value, !.updatedAt = t]
      [] field = "status" ->
            [task EXCEPT !.status = value,
                         !.completedAt = IF value = "completed"
                                         THEN (IF task.status # "completed" THEN Some(t) ELSE @)
                                         ELSE Null,
                         !.updatedAt = t]

\* the place in updateOrder of the first property of updates whose method
\* throws; Len(updateOrder) + 1 when none does
RECURSIVE firstThrowing(_, _)
firstThrowing(updates, i) ==
    IF i > Len(updateOrder) THEN i
    ELSE IF updateOrder[i] \in DOMAIN updates /\ updateFieldThrows(updateOrder[i], updates[updateOrder[i]])
         THEN i
         ELSE firstThrowing(updates, i + 1)

updateThrows(updates) == firstThrowing(updates, 1) <= Len(updateOrder)

\* an update() that undoes what it applied when a later property throws
RECURSIVE applyAllOrNothing(_, _, _, _)
applyAllOrNothing(task, updates, n, t) ==
    IF n = 0 \/ updateThrows(updates) THEN task
    ELSE IF updateOrder[n] \in DOMAIN updates
         THEN updateField(applyAllOrNothing(task, updates, n - 1, t), updateOrder[n],
                          updates[updateOrder[n]], t)
         ELSE applyAllOrNothing(task, updates, n - 1, t)

\* the task after update() has gone through the first n places of updateOrder
RECURSIVE applyUpdates(_, _, _, _)
applyUpdates(task, updates, n, t) ==
    IF n = 0 THEN task
    ELSE IF updateOrder[n] \in DOMAIN updates
         THEN updateField(applyUpdates(task, updates, n - 1, t), updateOrder[n],
                          updates[updateOrder[n]], t)
         ELSE applyUpdates(task, updates, n - 1, t)

\* _saveTasksToStorage(): storage.save('tasks', the toJSON of every task),
\* which stores the data with a timestamp; a failure is logged, not thrown
saveTasksToStorage(h, m, t) ==
    IF storage.failing THEN storage
    ELSE [storage EXCEPT !.data = Some([tasks |-> [i \in 1..Len(m) |-> h[m[i].v]],
                                        lastSaved |-> t])]

\* ------------------------------------------------------------- validation
\* src/validation.js.  undefined, null and '' are all the empty sequence; a
\* value that new Date() cannot parse is the date NotADate.
TitleMinLength == 1

TitleMaxLength == 100

DescriptionMaxLength == 500

NotADate == Some(-1)

\* a number; no string starts with the element "number"
Number(n) == <<"number", n>>

IsNumber(v) == v # <<>> /\ Head(v) = "number"

\* !v for a string or a number
Falsy(v) == v = <<>> \/ v = Number(0)

\* title.trim() is not a function: any title but null, undefined and ''
\* is trimmed
TitleValidationThrows(title) == title # Null /\ IsNumber(title)

\* description.trim() is not a function
DescriptionValidationThrows(description) == description # Null /\ IsNumber(description)

\* priority.trim() is not a function: only a truthy priority is trimmed
PriorityValidationThrows(priority) == ~Falsy(priority) /\ IsNumber(priority)

\* /<[^>]*>/.test(text)
HasHtmlTag(text) ==
    \E i \in 1..Len(text), j \in 1..Len(text) : i < j /\ text[i] = "<" /\ text[j] = ">"

\* the replacement of one character by sanitize: < > and " are replaced by
\* themselves
SanitizeChar(c) ==
    CASE c = "&" -> <<"&", "a", "m", "p", ";">>
      [] c = "'" -> <<"&", "#", "x", "2", "7", ";">>
      [] OTHER -> <<c>>

RECURSIVE sanitize(_)
sanitize(text) ==
    IF text = <<>> THEN <<>> ELSE SanitizeChar(Head(text)) \o sanitize(Tail(text))

\* TitleValidationStrategy.validate(title)
TitleValidationStrategy(title) ==
    IF title = Null
    THEN [isValid |-> FALSE, errors |-> <<"Title is required">>, sanitizedValue |-> Null]
    ELSE LET trimmed == Trim(title)
             errors ==
                 (IF Len(trimmed) = 0
                  THEN <<"Title cannot be empty or only whitespace">> ELSE <<>>) \o
                 (IF Len(trimmed) < TitleMinLength THEN <<"Title is too short">> ELSE <<>>) \o
                 (IF Len(trimmed) > TitleMaxLength THEN <<"Title is too long">> ELSE <<>>) \o
                 (IF HasHtmlTag(trimmed) THEN <<"Title cannot contain HTML tags">> ELSE <<>>)
         IN  [isValid |-> errors = <<>>, errors |-> errors, sanitizedValue |-> sanitize(trimmed)]

\* DescriptionValidationStrategy.validate(description)
DescriptionValidationStrategy(description) ==
    IF description = Null
    THEN [isValid |-> TRUE, errors |-> <<>>, sanitizedValue |-> <<>>]
    ELSE LET trimmed == Trim(description)
             errors ==
                 (IF Len(trimmed) > DescriptionMaxLength
                  THEN <<"Description is too long">> ELSE <<>>) \o
                 (IF HasHtmlTag(trimmed)
                  THEN <<"Description cannot contain HTML tags">> ELSE <<>>)
         IN  [isValid |-> errors = <<>>, errors |-> errors, sanitizedValue |-> sanitize(trimmed)]

High == <<"h", "i", "g", "h">>

Medium == <<"m", "e", "d", "i", "u", "m">>

Low == <<"l", "o", "w">>

\* PriorityValidationStrategy.validate(priority), with valid its list
PriorityValidationStrategy(priority) ==
    LET valid == <<High, Medium, Low>>
        normalized == ToLower(Trim(priority))
    IN  IF Falsy(priority)
        THEN [isValid |-> TRUE, errors |-> <<>>, sanitizedValue |-> Medium]
        ELSE IF ~Includes(valid, normalized)
        THEN [isValid |-> FALSE, errors |-> <<"Priority must be one of: high, medium, low">>,
              sanitizedValue |-> Null]
        ELSE [isValid |-> TRUE, errors |-> <<>>, sanitizedValue |-> normalized]

\* DueDateValidationStrategy.validate(dueDate) at time t
DueDateValidationStrategy(dueDate, t) ==
    IF dueDate = Null
    THEN [isValid |-> TRUE, errors |-> <<>>, sanitizedValue |-> Null]
    ELSE IF dueDate = NotADate
    THEN [isValid |-> FALSE, errors |-> <<"Due date must be a valid date">>,
          sanitizedValue |-> Null]
    ELSE IF Val(dueDate) < StartOfDay(t)
    THEN [isValid |-> FALSE, errors |-> <<"Due date must be today or in the future">>,
          sanitizedValue |-> Null]
    ELSE [isValid |-> TRUE, errors |-> <<>>, sanitizedValue |-> dueDate]

\* the fields validateTask looks at
ValidatedFields == {"title", "description", "priority", "dueDate"}

\* task[field], undefined when the key is absent
Field(task, field) == IF field \in DOMAIN task THEN task[field] ELSE Null

\* the validator of a field applied to the task's value
FieldResult(task, field, t) ==
    CASE field = "title" -> TitleValidationStrategy(Field(task, field))
      [] field = "description" -> DescriptionValidationStrategy(Field(task, field))
      [] field = "priority" -> PriorityValidationStrategy(Field(task, field))
      [] field = "dueDate" -> DueDateValidationStrategy(Field(task, field), t)

\* validateTask(task) throws: a validator it runs throws
validateTaskThrows(task) ==
    \/ TitleValidationThrows(Field(task, "title"))
    \/ "description" \in DOMAIN task /\ DescriptionValidationThrows(task.description)
    \/ "priority" \in DOMAIN task /\ PriorityValidationThrows(task.priority)

\* the sanitized value taken for a field whose key is absent
DefaultValue(field) == IF field = "priority" THEN Medium ELSE <<>>

\* TaskValidator.validateTask(task) at time t: the title is always validated,
\* the other fields when their key is in task
validateTask(task, t) ==
    LET validated == {"title"} \cup (DOMAIN task \cap ValidatedFields)
        fieldResults == [field \in validated |-> FieldResult(task, field, t)]
        ErrorsOf(field) ==
            IF field \in validated
            THEN [i \in 1..Len(fieldResults[field].errors) |->
                     <<field, fieldResults[field].errors[i]>>]
            ELSE <<>>
        errors == ErrorsOf("title") \o ErrorsOf("description") \o ErrorsOf("priority")
                      \o ErrorsOf("dueDate")
        sanitized == {field \in ValidatedFields :
                         field \in validated => fieldResults[field].isValid}
    IN  [ isValid       |-> errors = <<>>,
          errors        |-> errors,
          fieldResults  |-> fieldResults,
          sanitizedData |-> [field \in sanitized |->
                                IF field \in validated
                                THEN fieldResults[field].sanitizedValue
                                ELSE DefaultValue(field)] ]

\* TaskValidator.validateTaskUpdate(updates): validateTask of a copy
validateTaskUpdate(updates, t) == validateTask([field \in DOMAIN updates |-> updates[field]], t)

\* ------------------------------------------------------------------ state
Refs == 1..Len(heap)

\* generateId(): an id no object carries yet
GeneratedId(n) == <<"task", n>>

ForeignId == <<"task", 0>>

NoCall ==
    [op |-> "init", ref |-> 0, key |-> ForeignId, arg |-> Null, ok |-> TRUE, threw |-> FALSE]

NoUserCall == [id |-> 0, op |-> "init", arg |-> Null, ok |-> TRUE]

\* a call that returned normally (ok) or threw
Call(op, ref, key, arg, ok) ==
    [op |-> op, ref |-> ref, key |-> key, arg |-> arg, ok |-> ok, threw |-> ~ok]

\* a call that reported its failure by the value it returned
Returned(op, ref, key, arg) ==
    [op |-> op, ref |-> ref, key |-> key, arg |-> arg, ok |-> FALSE, threw |-> FALSE]

\* no adapter, as the constructor's default
NoStorage == [failing |-> FALSE, configured |-> FALSE, data |-> Null]

Init ==
    /\ heap = <<>>
    /\ tasks = <<>>
    /\ now = 0
    /\ last = NoCall
    /\ users = <<>>
    /\ ulast = NoUserCall
    /\ storage = NoStorage
    /\ listeners = {}
    /\ events = <<>>
    /\ pending = <<>>

\* time passes between two calls
Tick ==
    /\ now < MaxTime
    /\ now' = now + 1
    /\ last' = Call("tick", 0, ForeignId, Null, TRUE)
    /\ UNCHANGED <<heap, tasks, users, ulast, storage, listeners, events, pending>>

\* new Task(title, '', userId, options), while fewer than limit objects exist
NewTask(limit, title, userId, options) ==
    /\ Len(heap) < limit
    /\ IF ConstructorThrows(title, userId, options)
       THEN /\ last' = Call("new", 0, ForeignId, Null, FALSE)
            /\ UNCHANGED heap
       ELSE /\ heap' = Append(heap, NewTaskObject(GeneratedId(Len(heap) + 1), title, <<>>,
                                                  userId, options, now))
            /\ last' = Call("new", Len(heap) + 1, ForeignId, Null, TRUE)
    /\ UNCHANGED <<tasks, now, users, ulast, storage, listeners, events, pending>>

\* Task.fromJSON(task.toJSON()) with task the object r: a second object that
\* carries the same id
FromJSON(limit, r) ==
    /\ Len(heap) < limit
    /\ IF fromJSONThrows(toJSON(heap[r]))
       THEN /\ last' = Call("fromJSON", 0, heap[r].id, Null, FALSE)
            /\ UNCHANGED heap
       ELSE /\ heap' = Append(heap, fromJSON(toJSON(heap[r]), GeneratedId(Len(heap) + 1), now))
            /\ last' = Call("fromJSON", Len(heap) + 1, heap[r].id, Null, TRUE)
    /\ UNCHANGED <<tasks, now, users, ulast, storage, listeners, events, pending>>

\* task.setStatus(status) on the object r
SetStatus(r, status) ==
    /\ IF setStatusThrows(status)
       THEN UNCHANGED heap
       ELSE heap' = [heap EXCEPT ![r] = setStatus(@, status, now)]
    /\ last' = Call("setStatus", r, ForeignId, status, ~setStatusThrows(status))
    /\ UNCHANGED <<tasks, now, users, ulast, storage, listeners, events, pending>>

MarkComplete(r) ==
    /\ heap' = [heap EXCEPT ![r] = markComplete(@, now)]
    /\ last' = Call("markComplete", r, ForeignId, Null, TRUE)
    /\ UNCHANGED <<tasks, now, users, ulast, storage, listeners, events, pending>>

MarkIncomplete(r) ==
    /\ heap' = [heap EXCEPT ![r] = markIncomplete(@, now)]
    /\ last' = Call("markIncomplete", r, ForeignId, Null, TRUE)
    /\ UNCHANGED <<tasks, now, users, ulast, storage, listeners, events, pending>>

\* new TaskRepository(adapter): an empty Map and no listeners; the adapter
\* keeps what it holds
NewRepository(adapter) ==
    /\ tasks' = <<>>
    /\ listeners' = {}
    /\ storage' = [storage EXCEPT !.configured = adapter]
    /\ last' = Call("newRepository", 0, ForeignId, Null, TRUE)
    /\ UNCHANGED <<heap, now, users, ulast, events, pending>>

\* repository.on(event, callback) with a recording callback
On(event) ==
    /\ event \notin listeners
    /\ listeners' = listeners \cup {event}
    /\ last' = Call("on", 0, ForeignId, Null, TRUE)
    /\ UNCHANGED <<heap, tasks, now, users, ulast, storage, events, pending>>

\* the adapter's save starts (or stops) throwing
StorageFails(failing) ==
    /\ storage.configured
    /\ storage.failing # failing
    /\ storage' = [storage EXCEPT !.failing = failing]
    /\ last' = Call("storageFails", 0, ForeignId, Null, TRUE)
    /\ UNCHANGED <<heap, tasks, now, users, ulast, listeners, events, pending>>

\* repository.create(task) with task the object r
RepoCreate(r) ==
    /\ Len(events) < MaxEvents
    /\ IF createThrows(heap[r])
       THEN /\ last' = Call("create", r, heap[r].id, Null, FALSE)
            /\ UNCHANGED <<tasks, storage, events>>
       ELSE /\ tasks' = MapSet(tasks, heap[r].id, r)
            /\ events' = emit("taskAdded", heap[r].id)
            /\ storage' = SaveIfStorage(heap, tasks', now)
            /\ last' = Call("create", r, heap[r].id, Null, ~SaveIfStorageThrows)
    /\ UNCHANGED <<heap, now, users, ulast, listeners, pending>>

\* repository.create(task) called and not awaited: create runs up to the
\* await of the adapter's save, which has the data and has not written it
CreateUnawaited(r) ==
    /\ storage.configured
    /\ Len(events) < MaxEvents
    /\ Len(pending) < MaxPending
    /\ IF createThrows(heap[r])
       THEN /\ last' = Call("create", r, heap[r].id, Null, FALSE)
            /\ UNCHANGED <<tasks, events, pending>>
       ELSE /\ tasks' = MapSet(tasks, heap[r].id, r)
            /\ events' = emit("taskAdded", heap[r].id)
            /\ pending' = Append(pending, [tasks |-> Serialized(heap, tasks'), lastSaved |-> now])
            /\ last' = Call("create", r, heap[r].id, Null, TRUE)
    /\ UNCHANGED <<heap, now, users, ulast, storage, listeners>>

\* the adapter finishes one of the saves it has in progress, in any order: a
\* write, or an error if save is failing
SaveCompletes(i) ==
    /\ storage' = IF saveThrows THEN storage ELSE [storage EXCEPT !.data = Some(pending[i])]
    /\ pending' = RemoveAt(pending, i)
    /\ last' = Call("saveCompletes", 0, ForeignId, Null, ~saveThrows)
    /\ UNCHANGED <<heap, tasks, now, users, ulast, listeners, events>>

\* repository.update(taskId, updates)
RepoUpdate(taskId, updates) ==
    /\ Len(events) < MaxEvents
    /\ IF findById(taskId) = 0
       THEN /\ last' = Returned("update", 0, taskId, updates)
            /\ UNCHANGED <<heap, storage, events>>
       ELSE /\ heap' = [heap EXCEPT ![findById(taskId)] = AssignUpdates(@, updates, now)]
            /\ events' = emit("taskUpdated", taskId)
            /\ storage' = SaveIfStorage(heap', tasks, now)
            /\ last' = Call("update", findById(taskId), taskId, updates, ~SaveIfStorageThrows)
    /\ UNCHANGED <<tasks, now, users, ulast, listeners, pending>>

\* repository.deleteTask(taskId)
RepoDeleteTask(taskId) ==
    /\ Len(events) < MaxEvents
    /\ IF findById(taskId) = 0
       THEN /\ last' = Call("deleteTask", 0, taskId, Null, FALSE)
            /\ UNCHANGED <<tasks, storage, events>>
       ELSE /\ tasks' = MapDelete(tasks, taskId)
            /\ events' = emit("taskDeleted", taskId)
            /\ storage' = SaveIfStorage(heap, tasks', now)
            /\ last' = Call("deleteTask", findById(taskId), taskId, Null, ~SaveIfStorageThrows)
    /\ UNCHANGED <<heap, now, users, ulast, listeners, pending>>

\* repository.findById(taskId): a read; null for an id that is not a key
RepoFindById(taskId) ==
    /\ last' = IF findById(taskId) = 0
               THEN Returned("findById", 0, taskId, Null)
               ELSE Call("findById", findById(taskId), taskId, Null, TRUE)
    /\ UNCHANGED <<heap, tasks, now, users, ulast, storage, listeners, events, pending>>

\* repository.loadFromStorage(), while the objects it builds fit in limit; the
\* adapter's load returns what its save stored last, null if nothing
LoadFromStorage(limit) ==
    /\ storage.data # Null => Len(heap) + Len(Val(storage.data).tasks) <= limit
    /\ IF ~storage.configured \/ storage.data = Null
       THEN UNCHANGED <<heap, tasks>>
       ELSE LET loaded == LoadablePrefix(Val(storage.data).tasks)
            IN  /\ heap' = heap \o [i \in 1..Len(loaded) |->
                                       fromJSON(loaded[i], GeneratedId(Len(heap) + i), now)]
                /\ tasks' = SetLoaded(heap', Len(heap), Len(loaded))
    /\ last' = Call("loadFromStorage", 0, ForeignId, Null, ~loadFromStorageThrows)
    /\ UNCHANGED <<now, users, ulast, storage, listeners, events, pending>>

\* repository.getTasksByFilter(filter): a read
GetTasksByFilter(filter) ==
    /\ last' = Call("getTasksByFilter", 0, ForeignId, filter, TRUE)
    /\ UNCHANGED <<heap, tasks, now, users, ulast, storage, listeners, events, pending>>

\* repository.clear(): saveToStorage() is started and not awaited, so its
\* error is not the caller's
Clear ==
    /\ tasks' = <<>>
    /\ storage' = SaveIfStorage(heap, tasks', now)
    /\ last' = Call("clear", 0, ForeignId, Null, TRUE)
    /\ UNCHANGED <<heap, now, users, ulast, listeners, events, pending>>

\* the entity mutators, called on the object r
SetDueDate(r, dueDate) ==
    /\ heap' = [heap EXCEPT ![r] = setDueDate(@, dueDate, now)]
    /\ last' = Call("setDueDate", r, ForeignId, dueDate, TRUE)
    /\ UNCHANGED <<tasks, now, users, ulast, storage, listeners, events, pending>>

SetEstimatedHours(r, hours) ==
    /\ IF HoursThrows(hours)
       THEN UNCHANGED heap
       ELSE heap' = [heap EXCEPT ![r] = setEstimatedHours(@, hours, now)]
    /\ last' = Call("setEstimatedHours", r, ForeignId, hours, ~HoursThrows(hours))
    /\ UNCHANGED <<tasks, now, users, ulast, storage, listeners, events, pending>>

SetActualHours(r, hours) ==
    /\ IF HoursThrows(hours)
       THEN UNCHANGED heap
       ELSE heap' = [heap EXCEPT ![r] = setActualHours(@, hours, now)]
    /\ last' = Call("setActualHours", r, ForeignId, hours, ~HoursThrows(hours))
    /\ UNCHANGED <<tasks, now, users, ulast, storage, listeners, events, pending>>

\* the total is capped at MaxHours
AddTimeSpent(r, hours) ==
    /\ Val(OrElse(heap[r].actualHours, Some(0))) + hours <= MaxHours
    /\ IF addTimeSpentThrows(hours)
       THEN UNCHANGED heap
       ELSE heap' = [heap EXCEPT ![r] = addTimeSpent(@, hours, now)]
    /\ last' = Call("addTimeSpent", r, ForeignId, hours, ~addTimeSpentThrows(hours))
    /\ UNCHANGED <<tasks, now, users, ulast, storage, listeners, events, pending>>

AddTag(r, tag) ==
    /\ IF addTagThrows(tag)
       THEN UNCHANGED heap
       ELSE heap' = [heap EXCEPT ![r] = addTag(@, tag, now)]
    /\ last' = Call("addTag", r, ForeignId, tag, ~addTagThrows(tag))
    /\ UNCHANGED <<tasks, now, users, ulast, storage, listeners, events, pending>>

RemoveTag(r, tag) ==
    /\ heap' = [heap EXCEPT ![r] = removeTag(@, tag, now)]
    /\ last' = Call("removeTag", r, ForeignId, tag, TRUE)
    /\ UNCHANGED <<tasks, now, users, ulast, storage, listeners, events, pending>>

AddDependency(r, taskId) ==
    /\ IF addDependencyThrows(heap[r], taskId)
       THEN UNCHANGED heap
       ELSE heap' = [heap EXCEPT ![r] = addDependency(@, taskId, now)]
    /\ last' = Call("addDependency", r, ForeignId, taskId, ~addDependencyThrows(heap[r], taskId))
    /\ UNCHANGED <<tasks, now, users, ulast, storage, listeners, events, pending>>

RemoveDependency(r, taskId) ==
    /\ heap' = [heap EXCEPT ![r] = removeDependency(@, taskId, now)]
    /\ last' = Call("removeDependency", r, ForeignId, taskId, TRUE)
    /\ UNCHANGED <<tasks, now, users, ulast, storage, listeners, events, pending>>

\* task.dependencies = value on the object r
SetDependencies(r, value) ==
    /\ heap' = [heap EXCEPT ![r] = setDependencies(@, value)]
    /\ last' = Call("setDependencies", r, ForeignId, value, TRUE)
    /\ UNCHANGED <<tasks, now, users, ulast, storage, listeners, events, pending>>

\* task.notes = value on the object r
SetNotes(r, value) ==
    /\ heap' = [heap EXCEPT ![r] = setNotes(@, value)]
    /\ last' = Call("setNotes", r, ForeignId, value, TRUE)
    /\ UNCHANGED <<tasks, now, users, ulast, storage, listeners, events, pending>>

\* generateId() for a note
GeneratedNoteId(task) == <<"note", Len(task.notes) + 1>>

\* task.addNote(content), the author defaulting to the owner
AddNote(r, content) ==
    /\ IF addNoteThrows(content)
       THEN UNCHANGED heap
       ELSE heap' = [heap EXCEPT ![r] = addNote(@, GeneratedNoteId(@), content, @.userId, now)]
    /\ last' = Call("addNote", r, ForeignId, content, ~addNoteThrows(content))
    /\ UNCHANGED <<tasks, now, users, ulast, storage, listeners, events, pending>>

\* task.removeNote(noteId)
RemoveNote(r, noteId) ==
    /\ heap' = [heap EXCEPT ![r] = removeNote(@, noteId, now)]
    /\ last' = Call("removeNote", r, ForeignId, noteId, TRUE)
    /\ UNCHANGED <<tasks, now, users, ulast, storage, listeners, events, pending>>

\* repository.create(taskData) of the guide's TaskRepository, while fewer
\* than limit objects exist
EnhancedCreate(limit, taskData) ==
    /\ Len(heap) < limit
    /\ IF EnhancedTaskThrows(taskData.title, taskData.ownerId, taskData)
       THEN /\ last' = Call("enhancedCreate", 0, ForeignId, taskData, FALSE)
            /\ UNCHANGED <<heap, tasks, storage>>
       ELSE /\ heap' = Append(heap, NewEnhancedTask(GeneratedId(Len(heap) + 1), taskData.title,
                                                    <<>>, taskData.ownerId, taskData, now))
            /\ tasks' = MapSet(tasks, GeneratedId(Len(heap) + 1), Len(heap) + 1)
            /\ storage' = saveTasksToStorage(heap', tasks', now)
            /\ last' = Call("enhancedCreate", Len(heap) + 1, GeneratedId(Len(heap) + 1),
                            taskData, TRUE)
    /\ UNCHANGED <<now, users, ulast, listeners, events, pending>>

\* repository.update(id, updates) of the guide's TaskRepository: the
\* properties are applied one after the other until one throws, and
\* _saveTasksToStorage() runs after the last
EnhancedUpdate(id, updates) ==
    /\ IF findById(id) = 0
       THEN /\ last' = Returned("enhancedUpdate", 0, id, updates)
            /\ UNCHANGED <<heap, storage>>
       ELSE /\ heap' = [heap EXCEPT ![findById(id)] =
                           applyUpdates(@, updates, firstThrowing(updates, 1) - 1, now)]
            /\ storage' = IF updateThrows(updates) THEN storage
                          ELSE saveTasksToStorage(heap', tasks, now)
            /\ last' = Call("enhancedUpdate", findById(id), id, updates, ~updateThrows(updates))
    /\ UNCHANGED <<tasks, now, users, ulast, listeners, events, pending>>

\* a query of TaskService for userId, with value its second argument: a read
ServiceQuery(op, userId, value) ==
    /\ last' = Call(op, 0, ForeignId, <<userId, value>>, TRUE)
    /\ UNCHANGED <<heap, tasks, now, users, ulast, storage, listeners, events, pending>>

\* ------------------------------------------------------------ User entity
\* /^[^\s@]+@[^\s@]+\.[^\s@]+$/.test(email)
isValidEmail(email) ==
    /\ \A i \in 1..Len(email) : ~IsSpace(email[i])
    /\ Cardinality({i \in 1..Len(email) : email[i] = "@"}) = 1
    /\ LET at == IndexOf(email, "@")
       IN  /\ at > 1
           /\ \E dot \in (at + 2)..(Len(email) - 1) : email[dot] = "."

UserConstructorThrows(username, email) ==
    \/ BlankString(username)
    \/ email = <<>>
    \/ ~isValidEmail(email)

\* new User(username, email, fullName) with id the generated id
NewUserObject(id, username, email, fullName) ==
    [ id          |-> id,
      email       |-> ToLower(Trim(email)),
      username    |-> ToLower(Trim(username)),
      fullName    |-> Trim(fullName),
      role        |-> "user",
      isActive    |-> TRUE,
      preferences |-> [theme |-> "light"] ]

\* fullName and email are strings or undefined (Null)
updateProfileThrows(fullName, email) ==
    email # Null /\ Val(email) # <<>> /\ ~isValidEmail(Val(email))

updateProfile(user, fullName, email) ==
    [user EXCEPT
        !.fullName = IF fullName # Null /\ Val(fullName) # <<>> THEN Trim(Val(fullName)) ELSE @,
        !.email = IF email # Null /\ Val(email) # <<>> THEN ToLower(Trim(Val(email))) ELSE @]

updatePreferences(user, newPreferences) ==
    [user EXCEPT !.preferences =
        [f \in DOMAIN @ \cup DOMAIN newPreferences |->
            IF f \in DOMAIN newPreferences THEN newPreferences[f] ELSE @[f]]]

deactivate(user) == [user EXCEPT !.isActive = FALSE]

activate(user) == [user EXCEPT !.isActive = TRUE]

\* --------------------------------------------------------- UserRepository
\* this.users.values()
userValues == [i \in 1..Len(users) |-> users[i].v]

\* a faulty lookup that compares the username as typed
findByUsernameExact(username) ==
    \E i \in 1..Len(users) : users[i].v.username = username

\* findByUsername(username) finds a user
findByUsername(username) ==
    \E i \in 1..Len(users) : users[i].v.username = ToLower(username)

\* findByEmail(email) finds a user
findByEmail(email) ==
    \E i \in 1..Len(users) : users[i].v.email = ToLower(email)

\* User._generateId(): an id no stored user carries
GeneratedUserId ==
    <<"user", CHOOSE n \in 1..(Len(users) + 1) :
                 /\ ~MapHas(users, <<"user", n>>)
                 /\ \A m \in 1..(n - 1) : MapHas(users, <<"user", m>>)>>

UserCall(op, id, arg, ok) == [id |-> id, op |-> op, arg |-> arg, ok |-> ok]

UserCreateThrows(userData) ==
    \/ findByUsername(userData.username)
    \/ findByEmail(userData.email)
    \/ UserConstructorThrows(userData.username, userData.email)

\* userRepository.create(userData), while fewer than MaxUsers users are stored
UserCreate(userData) ==
    /\ Len(users) < MaxUsers
    /\ IF UserCreateThrows(userData)
       THEN /\ ulast' = UserCall("create", GeneratedUserId, userData, FALSE)
            /\ UNCHANGED users
       ELSE /\ users' = MapSet(users, GeneratedUserId,
                               NewUserObject(GeneratedUserId, userData.username,
                                             userData.email, userData.fullName))
            /\ ulast' = UserCall("create", GeneratedUserId, userData, TRUE)
    /\ UNCHANGED <<heap, tasks, now, last, storage, listeners, events, pending>>

\* the user object after the calls update(id, updates) makes on it
UserAfterUpdate(user, updates) ==
    LET profiled == IF updates.fullName # Null \/ updates.email # Null
                    THEN updateProfile(user, updates.fullName, updates.email)
                    ELSE user
        preferred == IF updates.preferences # Null
                     THEN updatePreferences(profiled, Val(updates.preferences))
                     ELSE profiled
    IN  IF updates.isActive = Null THEN preferred
        ELSE IF Val(updates.isActive) THEN activate(preferred)
        ELSE deactivate(preferred)

\* userRepository.update(id, updates)
UserUpdate(id, updates) ==
    /\ IF ~MapHas(users, id) \/ updateProfileThrows(updates.fullName, updates.email)
       THEN /\ ulast' = UserCall("update", id, updates, FALSE)
            /\ UNCHANGED users
       ELSE /\ users' = MapSet(users, id, UserAfterUpdate(MapGet(users, id), updates))
            /\ ulast' = UserCall("update", id, updates, TRUE)
    /\ UNCHANGED <<heap, tasks, now, last, storage, listeners, events, pending>>

\* a faulty delete that drops the record
DropRecord(m, id) == MapDelete(m, id)

\* the Map after delete(id) of a stored user: the user is deactivated
SoftDelete(m, id) == MapSet(m, id, deactivate(MapGet(m, id)))

\* userRepository.delete(id)
UserDelete(id) ==
    /\ IF ~MapHas(users, id)
       THEN /\ ulast' = UserCall("delete", id, Null, FALSE)
            /\ UNCHANGED users
       ELSE /\ users' = SoftDelete(users, id)
            /\ ulast' = UserCall("delete", id, Null, TRUE)
    /\ UNCHANGED <<heap, tasks, now, last, storage, listeners, events, pending>>

\* userRepository.hardDelete(id)
UserHardDelete(id) ==
    /\ IF MapHas(users, id)
       THEN /\ users' = MapDelete(users, id)
            /\ ulast' = UserCall("hardDelete", id, Null, TRUE)
       ELSE /\ ulast' = UserCall("hardDelete", id, Null, FALSE)
            /\ UNCHANGED users
    /\ UNCHANGED <<heap, tasks, now, last, storage, listeners, events, pending>>

\* ---------------------------------------------------------- TaskValidator
\* validator.validateTask(task)
ValidateTask(task) ==
    /\ last' = IF validateTaskThrows(task)
               THEN Call("validateTask", 0, ForeignId, task, FALSE)
               ELSE IF validateTask(task, now).isValid
               THEN Call("validateTask", 0, ForeignId, task, TRUE)
               ELSE Returned("validateTask", 0, ForeignId, task)
    /\ UNCHANGED <<heap, tasks, now, users, ulast, storage, listeners, events, pending>>

\* validator.validateTaskUpdate(updates)
ValidateTaskUpdate(updates) ==
    /\ last' = IF validateTaskThrows(updates)
               THEN Call("validateTaskUpdate", 0, ForeignId, updates, FALSE)
               ELSE IF validateTaskUpdate(updates, now).isValid
               THEN Call("validateTaskUpdate", 0, ForeignId, updates, TRUE)
               ELSE Returned("validateTaskUpdate", 0, ForeignId, updates)
    /\ UNCHANGED <<heap, tasks, now, users, ulast, storage, listeners, events, pending>>

\* ----------------------------------------------------------------- inputs
\* the values given to the validators
ValidatorTitles == {<<"a">>, <<" ">>, <<"<", "b", ">">>}

ValidatorDescriptions == {<<"w">>, <<"<", ">">>}

Urgent == <<"u", "r", "g", "e", "n", "t">>

ValidatorPriorities == {Null, Low, <<" ", "l", "o", "W">>, Urgent}

ValidatorDueDates == {Some(0), Some(2), NotADate}

\* candidates whose title and description hold markup characters
MarkupCandidates ==
    { [field \in keys |-> full[field]] :
        keys \in SUBSET ValidatedFields,
        full \in [ priority : {Low},
                   title : {<<"a", "<">>, <<">", "<">>, <<"<", "b", ">">>, <<"a", "&">>},
                   description : {<<"w">>, <<"a", ">">>}, dueDate : {Some(0)} ] }

\* candidates whose values are strings or numbers
AnyCandidates ==
    { [field \in keys |-> full[field]] :
        keys \in SUBSET ValidatedFields,
        full \in [ priority : {Low, Number(0), Number(1)}, title : {<<"a">>, Number(1)},
                   description : {<<"w">>, Number(0)}, dueDate : {Some(0)} ] }

\* the candidates: every choice of keys, with every choice of their values
Candidates ==
    { [field \in keys |-> full[field]] :
        keys \in SUBSET ValidatedFields,
        full \in [ priority : ValidatorPriorities, title : ValidatorTitles,
                   description : ValidatorDescriptions, dueDate : ValidatorDueDates ] }

Titles == {<<"a">>, <<" ">>}

UserIds == {<<"u">>, <<"v">>}

StatusInputs == {"pending", "on-hold", "completed", "archived"}

DueDates == {Null, Some(0), Some(2)}

HoursInputs == {-1, 0, 1}

NullableHours == {Null} \cup {Some(h) : h \in HoursInputs}

TagInputs == {<<"w">>, <<" ", "W">>, <<" ">>}

Options(priority, dueDate, estimatedHours) ==
    [ priority |-> priority, category |-> <<>>, assignedTo |-> <<>>, dueDate |-> dueDate,
      estimatedHours |-> estimatedHours, actualHours |-> Null ]

TaskKeys == {GeneratedId(n) : n \in 1..MaxTasks}

DependencyArrays == {<<>>, <<GeneratedId(2)>>}

NoteContents == {<<"w">>, <<"w", " ">>, <<" ">>}

NoteIds == {<<"note", 1>>, <<"note", 2>>}

\* the arrays assigned to notes: note records as addNote builds them
NoteArrays ==
    { <<>>,
      <<NewNote(<<"note", 1>>, <<"w">>, <<"u">>, 0)>>,
      <<NewNote(<<"note", 1>>, <<"w">>, <<"u">>, 0), NewNote(<<"note", 2>>, <<"a">>, <<"u">>, 0)>> }

\* the partial objects passed to update; update validates none of them
CompletionUpdates ==
    {[completed |-> b] : b \in BOOLEAN} \cup {[status |-> s] : s \in StatusInputs}

FieldUpdates ==
    { [priority |-> "high", title |-> <<"b">>],
      [updatedAt |-> 1],
      [id |-> GeneratedId(2)],
      [tags |-> << <<"w">> >>] }

\* updates that name the identity fields of a task
IdentityUpdates ==
    { [id |-> GeneratedId(2)],
      [userId |-> <<"v">>],
      [createdAt |-> 1],
      [priority |-> "high", title |-> <<"b">>] }

\* updates that leave a property outside what the Task methods accept
UnvalidatedUpdates ==
    {[priority |-> "critical"], [status |-> "archived"], [category |-> <<"x">>]}

\* the filters that sort
SortFilters ==
    { [userId |-> userId, sortBy |-> sortBy, sortOrder |-> sortOrder] :
        userId \in {Null, <<"u">>},
        sortBy \in {"", "title", "priority", "dueDate", "createdAt", "updatedAt"},
        sortOrder \in {"asc", "desc"} }

\* the events the repository emits
EventNames == {"taskAdded", "taskUpdated", "taskDeleted"}

\* updates of one ordinary field
PriorityUpdates == {[priority |-> "high"]}

UserKeys == {<<"user", n>> : n \in 1..MaxUsers}

Usernames == {<<"b">>, <<"B">>, <<"b", " ">>, <<"a">>}

EmailA == <<"a", "@", "b", ".", "w">>

EmailUpperA == <<"A", "@", "b", ".", "w">>

EmailW == <<"w", "@", "b", ".", "w">>

Emails == {EmailA, EmailUpperA, EmailW, <<"a", "@", "b">>}

UserUpdates ==
    { [email |-> Some(e), fullName |-> Null, isActive |-> Null, preferences |-> Null] :
        e \in Emails } \cup
    { [email |-> Null, fullName |-> Null, isActive |-> Null,
       preferences |-> Some([theme |-> "dark"])],
      [email |-> Null, fullName |-> Null, isActive |-> Some(TRUE), preferences |-> Null],
      [email |-> Null, fullName |-> Null, isActive |-> Some(FALSE), preferences |-> Null] }

\* task data for the guide's repository.create
EnhancedTaskData ==
    {[priority |-> p, category |-> "", title |-> <<"a">>, status |-> "", ownerId |-> <<"u">>] :
        p \in {"", "high", "none"}}

\* updates for the guide's repository.update: none, the first, or a later
\* property is one its method throws on
EnhancedUpdates ==
    { [title |-> <<"b">>],
      [priority |-> "high", title |-> <<" ">>],
      [priority |-> "none", title |-> <<"b">>],
      [category |-> "work", status |-> "done"],
      [description |-> <<"d">>, status |-> "completed"],
      [priority |-> "urgent", category |-> "chores", title |-> <<"c">>] }

\* the per-user queries of TaskService
ServiceQueries ==
    { "getTasksForUser", "getPendingTasks", "getCompletedTasks", "getOverdueTasks",
      "getTasksByPriority", "getTasksByCategory", "searchTasks" }

\* the second argument a query is called with (none for the first four)
QueryValue(op) ==
    CASE op = "getTasksByPriority" -> "medium"
      [] op = "getTasksByCategory" -> <<"g", "e", "n", "e", "r", "a", "l">>
      [] op = "searchTasks" -> <<"A">>
      [] OTHER -> Null

\* --------------------------------------------------------- specifications
\* The repository and the completion state of the objects it holds; every
\* call at one clock reading.
Next ==
    \/ \E title \in Titles, userId \in UserIds :
          NewTask(MaxTasks, title, userId, Options("", Null, Null))
    \/ \E r \in Refs, status \in StatusInputs : SetStatus(r, status)
    \/ \E r \in Refs : MarkComplete(r)
    \/ \E r \in Refs : MarkIncomplete(r)
    \/ \E r \in Refs : RepoCreate(r)
    \/ \E taskId \in TaskKeys, updates \in CompletionUpdates : RepoUpdate(taskId, updates)
    \/ \E taskId \in TaskKeys : RepoDeleteTask(taskId)

Spec == Init /\ [][Next]_vars

\* The repository under create, update of arbitrary fields, and delete.
NextCrud ==
    \/ \E title \in Titles : NewTask(MaxTasks, title, <<"u">>, Options("", Null, Null))
    \/ \E r \in Refs : RepoCreate(r)
    \/ \E taskId \in TaskKeys, updates \in FieldUpdates : RepoUpdate(taskId, updates)
    \/ \E taskId \in TaskKeys : RepoDeleteTask(taskId)

SpecCrud == Init /\ [][NextCrud]_vars

\* One Task object under its own mutators, as time passes.
NextEntity ==
    \/ Tick
    \/ \E estimatedHours \in NullableHours :
          NewTask(MaxObjects, <<"a">>, <<"u">>, Options("", Null, estimatedHours))
    \/ \E r \in Refs, status \in StatusInputs : SetStatus(r, status)
    \/ \E r \in Refs, hours \in NullableHours : SetEstimatedHours(r, hours)
    \/ \E r \in Refs, hours \in NullableHours : SetActualHours(r, hours)
    \/ \E r \in Refs, hours \in HoursInputs : AddTimeSpent(r, hours)
    \/ \E r \in Refs, tag \in TagInputs : AddTag(r, tag)
    \/ \E r \in Refs, tag \in TagInputs : RemoveTag(r, tag)
    \/ \E r \in Refs, taskId \in TaskKeys : AddDependency(r, taskId)
    \/ \E r \in Refs, taskId \in TaskKeys : RemoveDependency(r, taskId)

SpecEntity == Init /\ [][NextEntity]_vars

\* Task objects under status changes and the dependency mutators, as time
\* passes.
NextDependency ==
    \/ Tick
    \/ NewTask(MaxObjects, <<"a">>, <<"u">>, Options("", Null, Null))
    \/ \E r \in Refs, status \in StatusInputs : SetStatus(r, status)
    \/ \E r \in Refs, taskId \in TaskKeys : AddDependency(r, taskId)
    \/ \E r \in Refs, taskId \in TaskKeys : RemoveDependency(r, taskId)
    \/ \E r \in Refs, value \in DependencyArrays : SetDependencies(r, value)

SpecDependency == Init /\ [][NextDependency]_vars

\* Task objects under the note mutators and the notes setter, as time passes.
NextNotes ==
    \/ Tick
    \/ NewTask(MaxObjects, <<"a">>, <<"u">>, Options("", Null, Null))
    \/ \E r \in Refs, content \in NoteContents : AddNote(r, content)
    \/ \E r \in Refs, noteId \in NoteIds : RemoveNote(r, noteId)
    \/ \E r \in Refs, value \in NoteArrays : SetNotes(r, value)

SpecNotes == Init /\ [][NextNotes]_vars

\* One Task object, held by the repository, under its mutators and under
\* updates of its identity fields, as time passes.
NextIdentity ==
    \/ Tick
    \/ \E userId \in UserIds : NewTask(MaxObjects, <<"a">>, userId, Options("", Null, Null))
    \/ \E r \in Refs, status \in StatusInputs : SetStatus(r, status)
    \/ \E r \in Refs, tag \in TagInputs : AddTag(r, tag)
    \/ \E r \in Refs : RepoCreate(r)
    \/ \E taskId \in TaskKeys, updates \in IdentityUpdates : RepoUpdate(taskId, updates)

SpecIdentity == Init /\ [][NextIdentity]_vars

\* One Task object with a due date, held by the repository, as time passes.
NextOverdue ==
    \/ Tick
    \/ \E dueDate \in DueDates : NewTask(MaxObjects, <<"a">>, <<"u">>, Options("", dueDate, Null))
    \/ \E r \in Refs, dueDate \in DueDates : SetDueDate(r, dueDate)
    \/ \E r \in Refs, status \in StatusInputs : SetStatus(r, status)
    \/ \E r \in Refs : RepoCreate(r)
    \/ \E taskId \in TaskKeys, updates \in CompletionUpdates : RepoUpdate(taskId, updates)

SpecOverdue == Init /\ [][NextOverdue]_vars

\* A repository with a storage adapter and recording listeners, called with
\* ids it holds and ids it does not hold, and with a second object of an id
\* it holds.  Every call at one clock reading.
NextRepository ==
    \/ NewTask(MaxTasks, <<"a">>, <<"u">>, Options("", Null, Null))
    \/ \E r \in Refs : FromJSON(MaxTasks, r)
    \/ NewRepository(TRUE)
    \/ \E event \in EventNames : On(event)
    \/ \E r \in Refs : RepoCreate(r)
    \/ \E taskId \in TaskKeys, updates \in PriorityUpdates : RepoUpdate(taskId, updates)
    \/ \E taskId \in TaskKeys : RepoDeleteTask(taskId)
    \/ \E taskId \in TaskKeys : RepoFindById(taskId)

SpecRepository == Init /\ [][NextRepository]_vars

\* A repository over a working storage adapter, given a second object of an
\* id it holds; callers also complete the objects they hold directly.  Every
\* call at one clock reading.
NextPersist ==
    \/ NewTask(MaxObjects, <<"a">>, <<"u">>, Options("", Null, Null))
    \/ \E r \in Refs : FromJSON(MaxTasks, r)
    \/ NewRepository(TRUE)
    \/ \E r \in Refs : RepoCreate(r)
    \/ \E taskId \in TaskKeys, updates \in PriorityUpdates : RepoUpdate(taskId, updates)
    \/ \E taskId \in TaskKeys : RepoDeleteTask(taskId)
    \/ Clear
    \/ \E r \in Refs : MarkComplete(r)

SpecPersist == Init /\ [][NextPersist]_vars

\* A repository over a storage adapter whose save starts and stops throwing.
\* Every call at one clock reading.
NextSaveFails ==
    \/ NewTask(MaxTasks, <<"a">>, <<"u">>, Options("", Null, Null))
    \/ NewRepository(TRUE)
    \/ \E failing \in BOOLEAN : StorageFails(failing)
    \/ \E r \in Refs : RepoCreate(r)
    \/ \E taskId \in TaskKeys, updates \in PriorityUpdates : RepoUpdate(taskId, updates)
    \/ \E taskId \in TaskKeys : RepoDeleteTask(taskId)
    \/ \E taskId \in TaskKeys : RepoFindById(taskId)
    \/ Clear

SpecSaveFails == Init /\ [][NextSaveFails]_vars

\* A repository over a working storage adapter whose callers also complete,
\* directly, the objects findById returned to them.  Every call at one clock
\* reading.
NextDirect ==
    \/ NewTask(MaxTasks, <<"a">>, <<"u">>, Options("", Null, Null))
    \/ NewRepository(TRUE)
    \/ \E r \in Refs : RepoCreate(r)
    \/ \E taskId \in TaskKeys, updates \in PriorityUpdates : RepoUpdate(taskId, updates)
    \/ \E taskId \in TaskKeys : RepoDeleteTask(taskId)
    \/ \E taskId \in TaskKeys : RepoFindById(taskId)
    \/ \E r \in Refs : MarkComplete(r)

SpecDirect == Init /\ [][NextDirect]_vars

\* A repository over a working storage adapter that is updated with values
\* no Task method accepts, and loaded again from what was saved.  Every call
\* at one clock reading.
NextLoad ==
    \/ NewTask(MaxObjects, <<"a">>, <<"u">>, Options("", Null, Null))
    \/ NewRepository(TRUE)
    \/ \E r \in Refs : RepoCreate(r)
    \/ \E taskId \in TaskKeys, updates \in UnvalidatedUpdates : RepoUpdate(taskId, updates)
    \/ LoadFromStorage(MaxTasks)

SpecLoad == Init /\ [][NextLoad]_vars

\* The task validator applied to full and partial candidates, as time passes.
NextValidate ==
    \/ Tick
    \/ \E task \in Candidates : ValidateTask(task)
    \/ \E updates \in Candidates : ValidateTaskUpdate(updates)

SpecValidate == Init /\ [][NextValidate]_vars

\* The task validator applied to candidates that hold strings and numbers, as
\* time passes.
NextValidateAny ==
    \/ Tick
    \/ \E task \in AnyCandidates : ValidateTask(task)
    \/ \E updates \in AnyCandidates : ValidateTaskUpdate(updates)

SpecValidateAny == Init /\ [][NextValidateAny]_vars

\* The task validator applied to candidates with markup characters, as time
\* passes.
NextSanitize ==
    \/ Tick
    \/ \E task \in MarkupCandidates : ValidateTask(task)
    \/ \E updates \in MarkupCandidates : ValidateTaskUpdate(updates)

SpecSanitize == Init /\ [][NextSanitize]_vars

\* A repository of tasks that differ in title, priority, due date and time
\* of creation, queried with sorting filters.
NextSort ==
    \/ Tick
    \/ \E title \in {<<"a">>, <<"b">>}, priority \in {"low", "high"}, dueDate \in DueDates :
          NewTask(MaxTasks, title, <<"u">>, Options(priority, dueDate, Null))
    \/ \E r \in Refs : RepoCreate(r)
    \/ \E filter \in SortFilters : GetTasksByFilter(filter)

SpecSort == Init /\ [][NextSort]_vars

\* The guide's repository of EnhancedTask objects over a storage manager,
\* updated property by property.
NextEnhanced ==
    \/ \E taskData \in EnhancedTaskData : EnhancedCreate(MaxObjects, taskData)
    \/ \E n \in 1..MaxObjects, updates \in EnhancedUpdates : EnhancedUpdate(GeneratedId(n), updates)

SpecEnhanced == Init /\ [][NextEnhanced]_vars

\* A repository with recording listeners over a storage adapter whose save
\* starts and stops throwing.  Every call at one clock reading.
NextListeners ==
    \/ NewTask(MaxObjects, <<"a">>, <<"u">>, Options("", Null, Null))
    \/ ~storage.configured /\ NewRepository(TRUE)
    \/ \E event \in EventNames : On(event)
    \/ \E failing \in BOOLEAN : StorageFails(failing)
    \/ \E r \in Refs : RepoCreate(r)
    \/ \E taskId \in TaskKeys, updates \in PriorityUpdates : RepoUpdate(taskId, updates)
    \/ \E taskId \in TaskKeys : RepoDeleteTask(taskId)

SpecListeners == Init /\ [][NextListeners]_vars

\* Tasks of two users with and without a due date, held by the repository
\* and queried through the service for either user, as time passes.
NextService ==
    \/ Tick
    \/ \E userId \in UserIds, dueDate \in {Null, Some(0)} :
          NewTask(MaxTasks, <<"a">>, userId, Options("", dueDate, Null))
    \/ \E r \in Refs : MarkComplete(r)
    \/ \E r \in Refs : RepoCreate(r)
    \/ \E op \in ServiceQueries, userId \in UserIds : ServiceQuery(op, userId, QueryValue(op))

SpecService == Init /\ [][NextService]_vars

\* A repository over a storage adapter, whose callers start a create before
\* the save of the one before has been written, as time passes.
NextUnawaited ==
    \/ Tick
    \/ \E title \in Titles : NewTask(MaxTasks, title, <<"u">>, Options("", Null, Null))
    \/ ~storage.configured /\ NewRepository(TRUE)
    \/ \E r \in Refs : CreateUnawaited(r)
    \/ \E i \in 1..Len(pending) : SaveCompletes(i)

SpecUnawaited == Init /\ [][NextUnawaited]_vars

\* The user repository under create, update, delete and hardDelete.
NextUser ==
    \/ \E username \in Usernames, email \in Emails :
          UserCreate([email |-> email, username |-> username, fullName |-> <<>>])
    \/ \E id \in UserKeys, updates \in UserUpdates : UserUpdate(id, updates)
    \/ \E id \in UserKeys : UserDelete(id)
    \/ \E id \in UserKeys : UserHardDelete(id)

SpecUser == Init /\ [][NextUser]_vars

\* ----------------------------------------------------------------- claims
StoredTask(i) == heap[tasks[i].v]

DayOf(t) == t \div TicksPerDay

RECURSIVE SumOver(_, _)
SumOver(f, S) ==
    IF S = {} THEN 0
    ELSE LET x == CHOOSE y \in S : TRUE IN f[x] + SumOver(f, S \ {x})

\* C1: after setStatus(s) returns for a valid s, s = 'completed' gives
\* completed true and completedAt non-null, and any other s gives completed
\* false and completedAt null.
C1_SetStatusSyncsCompletion ==
    (last.op = "setStatus" /\ last.ok) =>
        LET task == heap[last.ref]
        IN  IF last.arg = "completed"
            THEN task.completed /\ task.completedAt # Null
            ELSE ~task.completed /\ task.completedAt = Null

\* C2: every stored task has completed = (status = 'completed') and
\* (completedAt # null) = completed.
C2_StoredTasksInSync ==
    \A i \in 1..Len(tasks) :
        /\ StoredTask(i).completed = (StoredTask(i).status = "completed")
        /\ (StoredTask(i).completedAt # Null) = StoredTask(i).completed

\* C3: Task.fromJSON(task.toJSON()) succeeds and equals the task in every field.
C3_RoundTrip ==
    \A r \in Refs :
        /\ ~fromJSONThrows(toJSON(heap[r]))
        /\ fromJSON(toJSON(heap[r]), GeneratedId(Len(heap) + 1), now) = heap[r]

C6_CaseInsensitiveUsernameConflict ==
    [][(/\ ulast'.op = "create"
        /\ \E i \in 1..Len(users) :
              ToLower(users[i].v.username) = ToLower(ulast'.arg.username))
       => (~ulast'.ok /\ users' = users)]_vars

\* C6 witness: a create has just failed whose username differs from a stored
\* one in letter case only.
C6_Witness ==
    /\ ulast.op = "create" /\ ~ulast.ok
    /\ \E i \in 1..Len(users) :
          /\ users[i].v.username # ulast.arg.username
          /\ users[i].v.username = ToLower(ulast.arg.username)
          /\ users[i].v.email # ToLower(ulast.arg.email)

\* C7: no two stored users have the same username, and no two the same email.
C7_UniqueUsernameAndEmail ==
    \A i, j \in 1..Len(users) :
        i # j => /\ users[i].v.username # users[j].v.username
                 /\ users[i].v.email # users[j].v.email

\* C8: for every optional owner id the statistics satisfy
\* completed + incomplete = total, and the status buckets sum to total.
C8_StatisticsSum ==
    \A userId \in {Null} \cup {Some(u) : u \in UserIds} :
        LET stats == getTaskStats(userId)
        IN  /\ stats.completed + stats.incomplete = stats.total
            /\ SumOver(stats.byStatus, DOMAIN stats.byStatus) = stats.total

\* C8 witness: two stored tasks of one owner, one completed and one on hold.
C8_Witness ==
    \E u \in UserIds :
        LET stats == getTaskStats(Some(u))
        IN  /\ stats.total = 2
            /\ stats.completed = 1
            /\ stats.byStatus["on-hold"] = 1

\* C9: isOverdue, of Task and of EnhancedTask, is false when dueDate is null
\* or status is 'completed', and otherwise true exactly when the day of
\* dueDate is before the current day.
C9_IsOverdueByStatusAndDay ==
    \A r \in Refs :
        IF heap[r].dueDate = Null \/ heap[r].status = "completed"
        THEN ~isOverdue(heap[r], now) /\ ~EnhancedTaskIsOverdue(heap[r], now)
        ELSE /\ isOverdue(heap[r], now) <=> DayOf(Val(heap[r].dueDate)) < DayOf(now)
             /\ EnhancedTaskIsOverdue(heap[r], now) <=> DayOf(Val(heap[r].dueDate)) < DayOf(now)

\* C10: addDependency(taskId) with taskId the task's own id fails and leaves
\* the task, its dependencies and updatedAt included, unchanged.
C10_SelfDependencyRejected ==
    [][(last'.op = "addDependency" /\ last'.arg = heap[last'.ref].id)
       => (/\ ~last'.ok
           /\ heap'[last'.ref].dependencies = heap[last'.ref].dependencies
           /\ heap'[last'.ref].updatedAt = heap[last'.ref].updatedAt
           /\ heap' = heap)]_vars

\* C10 witness: addDependency of the own id has just failed on a task that
\* has a dependency and was last updated before now.
C10_Witness ==
    /\ last.op = "addDependency" /\ ~last.ok
    /\ last.arg = heap[last.ref].id
    /\ heap[last.ref].dependencies # <<>>
    /\ heap[last.ref].updatedAt < now

\* C11: a successful addNote(content) appends exactly one record with the
\* trimmed content, the author and the creation time to the notes, and
\* removeNote(id) of a note the task holds removes exactly that note.
C11_NotesAppendAndRemove ==
    [][/\ (last'.op = "addNote" /\ last'.ok) =>
            LET before == heap[last'.ref].notes
                after == heap'[last'.ref].notes
            IN  /\ Len(after) = Len(before) + 1
                /\ SubSeq(after, 1, Len(before)) = before
                /\ after[Len(after)].content = Trim(last'.arg)
                /\ after[Len(after)].author = heap[last'.ref].userId
                /\ after[Len(after)].createdAt = now
       /\ (last'.op = "removeNote" /\ FindNoteIndex(heap[last'.ref].notes, last'.arg) > 0) =>
            heap'[last'.ref].notes =
                RemoveAt(heap[last'.ref].notes, FindNoteIndex(heap[last'.ref].notes, last'.arg))
      ]_vars

\* C11 witness: addNote has just succeeded on a task.
C11_Witness == last.op = "addNote" /\ last.ok

\* C12: no step changes the id, the userId or the createdAt of a task that
\* exists.
C12_IdentityFieldsImmutable ==
    [][\A r \in Refs :
          /\ heap'[r].id = heap[r].id
          /\ heap'[r].userId = heap[r].userId
          /\ heap'[r].createdAt = heap[r].createdAt]_vars

\* C12 witness: an update naming an identity field has just succeeded.
C12_Witness ==
    /\ last.op = "update" /\ last.ok
    /\ DOMAIN last.arg \cap {"id", "userId", "createdAt"} # {}

\* C13: the estimatedHours and the actualHours of every task are null or a
\* number >= 0 (so a constructor call with negative hours made no task).
C13_HoursNonNegative ==
    \A r \in Refs :
        /\ heap[r].estimatedHours = Null \/ Val(heap[r].estimatedHours) >= 0
        /\ heap[r].actualHours = Null \/ Val(heap[r].actualHours) >= 0

\* C13 witness: a task whose two hours fields are both set.
C13_Witness ==
    \E r \in Refs : heap[r].estimatedHours # Null /\ heap[r].actualHours # Null

\* C14: findById, update and deleteTask of an id that is not a key of the
\* repository return null or false and do not throw, and leave the Map, the
\* data held by the storage adapter and the recorded events as they were.
C14_AbsentIdReportedByValue ==
    [][ (last'.op \in {"findById", "update", "deleteTask"} /\ ~MapHas(tasks, last'.key))
            => /\ ~last'.ok
               /\ ~last'.threw
               /\ UNCHANGED <<tasks, storage, events>>
      ]_vars

\* deleteTask of an id that is not a key, on a repository that holds a task,
\* has a storage adapter and a listener
C14_Witness ==
    /\ last.op = "deleteTask"
    /\ ~MapHas(tasks, last.key)
    /\ ~last.ok
    /\ tasks # <<>>
    /\ storage.configured
    /\ listeners # {}

\* C15: create of an object whose id is already a key throws and leaves the
\* Map and the data held by the storage adapter as they were, so the object
\* stored under the id is not replaced.
C15_DuplicateCreateRejected ==
    [][ (last'.op = "create" /\ MapHas(tasks, last'.key))
            => /\ last'.threw
               /\ UNCHANGED <<tasks, storage>>
      ]_vars

\* create was called with a second object carrying the id of a stored one,
\* after the adapter had saved
C15_Witness ==
    /\ last.op = "create"
    /\ last.threw
    /\ MapHas(tasks, last.key)
    /\ MapGet(tasks, last.key) # last.ref
    /\ storage.data # Null

\* C16: when the adapter's save throws during a create, update or deleteTask
\* that got as far as saving, the call does not throw, and the Map and the
\* object keep the change the call made.
C16_SaveFailureContained ==
    [][ /\ (last'.op = "create" /\ storage.configured /\ storage.failing
                /\ ~MapHas(tasks, last'.key))
            => (~last'.threw /\ MapGet(tasks', last'.key) = last'.ref)
        /\ (last'.op = "update" /\ storage.configured /\ storage.failing
                /\ MapHas(tasks, last'.key))
            => (~last'.threw /\ heap'[last'.ref] = AssignUpdates(heap[last'.ref], last'.arg, now))
        /\ (last'.op = "deleteTask" /\ storage.configured /\ storage.failing
                /\ MapHas(tasks, last'.key))
            => (~last'.threw /\ ~MapHas(tasks', last'.key))
      ]_vars

\* a create whose save threw: the Map holds the new task and the adapter's
\* data does not
C16_Witness ==
    /\ last.op = "create"
    /\ storage.configured /\ storage.failing
    /\ MapGet(tasks, last.key) = last.ref
    /\ storage.data # Null
    /\ Len(Val(storage.data).tasks) < Len(tasks)

C18_OtherRecordsNotSaved ==
    [][ (last'.op \in {"create", "update", "deleteTask"} /\ storage.data # Null
            /\ storage'.data # Null)
            => \A i \in 1..Len(Val(storage.data).tasks),
                  j \in 1..Len(Val(storage'.data).tasks) :
                  (/\ Val(storage.data).tasks[i].id = Val(storage'.data).tasks[j].id
                   /\ Val(storage.data).tasks[i].id # last'.key)
                      => Val(storage'.data).tasks[j] = Val(storage.data).tasks[i]
      ]_vars

\* a create of one task was saved while another stored task had been
\* completed directly since it was saved
C18_Witness ==
    /\ last.op = "create"
    /\ last.ok
    /\ storage.data # Null
    /\ \E i \in 1..Len(tasks) :
          /\ tasks[i].k # last.key
          /\ heap[tasks[i].v].completed

\* C19: fromJSON builds a task from every saved record, whatever its
\* priority, status and category, and loadFromStorage of saved data succeeds
\* and puts every record of the data in the Map.
C19_SavedRecordsLoad ==
    /\ storage.data # Null =>
          \A i \in 1..Len(Val(storage.data).tasks) : ~fromJSONThrows(Val(storage.data).tasks[i])
    /\ (last.op = "loadFromStorage" /\ storage.configured /\ storage.data # Null) =>
          /\ last.ok
          /\ Len(tasks) = Len(Val(storage.data).tasks)

\* loadFromStorage met a saved record whose priority is not one the
\* constructor accepts
C19_Witness ==
    /\ last.op = "loadFromStorage"
    /\ storage.configured
    /\ storage.data # Null
    /\ \E i \in 1..Len(Val(storage.data).tasks) :
          Val(storage.data).tasks[i].priority \notin validPriorities

\* C20: validateTask and validateTaskUpdate of a candidate run the validators
\* of exactly the keys the candidate has, and answer isValid when each of
\* these keys has a valid value.
C20_PartialCandidateValidated ==
    last.op \in {"validateTask", "validateTaskUpdate"} =>
        LET result == IF last.op = "validateTask" THEN validateTask(last.arg, now)
                      ELSE validateTaskUpdate(last.arg, now)
        IN  /\ DOMAIN result.fieldResults = DOMAIN last.arg
            /\ (\A field \in DOMAIN last.arg : FieldResult(last.arg, field, now).isValid)
                  => (result.isValid /\ last.ok)

\* validateTaskUpdate was given a valid priority and nothing else
C20_Witness ==
    /\ last.op = "validateTaskUpdate"
    /\ DOMAIN last.arg = {"priority"}
    /\ last.arg.priority = Low

\* C21: the priority validator accepts a missing priority with the value
\* medium, accepts exactly the priorities that are low, medium, high or urgent
\* up to letter case, with their lower case as value, and rejects the others
\* with an error.
C21_PriorityValidatorAcceptsEnum ==
    (last.op \in {"validateTask", "validateTaskUpdate"} /\ "priority" \in DOMAIN last.arg) =>
        LET priority == last.arg.priority
            result == PriorityValidationStrategy(priority)
        IN  IF priority = Null
            THEN result.isValid /\ result.sanitizedValue = Medium
            ELSE /\ result.isValid <=> ToLower(priority) \in {Low, Medium, High, Urgent}
                 /\ result.isValid => result.sanitizedValue = ToLower(priority)
                 /\ ~result.isValid => result.errors # <<>>

\* the validator was given the priority urgent, which the Task constructor
\* accepts
C21_Witness ==
    /\ last.op = "validateTaskUpdate"
    /\ "priority" \in DOMAIN last.arg
    /\ last.arg.priority = Urgent
    /\ ~validatePriorityThrows("urgent")

\* C22: validateTask and validateTaskUpdate answer with a result for every
\* candidate, whatever the type of its values, and do not throw.
C22_ValidatorsNeverThrow ==
    last.op \in {"validateTask", "validateTaskUpdate"} => ~last.threw

\* validateTask was given a candidate whose title is a number
C22_Witness ==
    /\ last.op = "validateTask"
    /\ "title" \in DOMAIN last.arg
    /\ IsNumber(last.arg.title)

\* C23: when validateTask or validateTaskUpdate answers isValid, the title,
\* description and priority of its sanitizedData contain neither < nor >.
C23_SanitizedDataHasNoAngleBrackets ==
    (last.op \in {"validateTask", "validateTaskUpdate"} /\ last.ok) =>
        LET sanitizedData == validateTask(last.arg, now).sanitizedData
        IN  \A field \in DOMAIN sanitizedData \cap {"title", "description", "priority"} :
                \A i \in 1..Len(sanitizedData[field]) : sanitizedData[field][i] \notin {"<", ">"}

\* a candidate whose title holds < outside a tag was found valid
C23_Witness ==
    /\ last.op = "validateTask"
    /\ last.ok
    /\ "title" \in DOMAIN last.arg
    /\ Includes(last.arg.title, "<")

\* the place of a character in the alphabet
CharCode(c) ==
    CASE c = " " -> 0
      [] c = "a" -> 1
      [] c = "b" -> 2
      [] OTHER -> 3

\* a <= b for strings
RECURSIVE StringLeq(_, _)
StringLeq(a, b) ==
    IF a = <<>> THEN TRUE
    ELSE IF b = <<>> THEN FALSE
    ELSE IF CharCode(Head(a)) # CharCode(Head(b)) THEN CharCode(Head(a)) < CharCode(Head(b))
    ELSE StringLeq(Tail(a), Tail(b))

\* the order of two tasks by the field f; a task without due date comes last
FieldLeq(a, b, f) ==
    CASE f = "title" -> StringLeq(ToLower(a.title), ToLower(b.title))
      [] f = "priority" -> priorityOrder(a.priority) <= priorityOrder(b.priority)
      [] f = "dueDate" -> b.dueDate = Null \/ (a.dueDate # Null /\ Val(a.dueDate) <= Val(b.dueDate))
      [] f = "createdAt" -> a.createdAt <= b.createdAt
      [] f = "updatedAt" -> a.updatedAt <= b.updatedAt

\* the place of the task with this id in the array
PlaceOf(arr, id) == CHOOSE i \in 1..Len(arr) : arr[i].id = id

\* C24: getTasksByFilter with sortBy f returns the selected tasks in
\* non-decreasing order of f, non-increasing for the order desc, and tasks
\* equal in f in the order they had before sorting.
C24_SortedByField ==
    (last.op = "getTasksByFilter" /\ last.arg.sortBy # "") =>
        LET f == last.arg.sortBy
            input == getTasksByFilter([last.arg EXCEPT !.sortBy = ""])
            result == getTasksByFilter(last.arg)
        IN  \A i, j \in 1..Len(result) :
                i < j =>
                    /\ IF last.arg.sortOrder = "desc"
                       THEN FieldLeq(result[j], result[i], f)
                       ELSE FieldLeq(result[i], result[j], f)
                    /\ (FieldLeq(result[i], result[j], f) /\ FieldLeq(result[j], result[i], f))
                          => PlaceOf(input, result[i].id) < PlaceOf(input, result[j].id)

\* two tasks whose titles are not in order were queried with sortBy title
C24_Witness ==
    /\ last.op = "getTasksByFilter"
    /\ last.arg.sortBy = "title"
    /\ last.arg.sortOrder = "asc"
    /\ Len(tasks) = 2
    /\ StoredTask(1).title = <<"b">>
    /\ StoredTask(2).title = <<"a">>

AppliedValue(field, value) ==
    IF field \in {"title", "description"} THEN Trim(value) ELSE value

\* the property at place i of updateOrder was applied before update() threw:
\* it is given, and no given property up to it throws
AppliedBeforeThrow(updates, i) ==
    /\ updateOrder[i] \in DOMAIN updates
    /\ \A j \in 1..i : updateOrder[j] \in DOMAIN updates =>
                          ~updateFieldThrows(updateOrder[j], updates[updateOrder[j]])

C27_StatusIsTheOneSet ==
    (last.op = "setStatus" /\ last.ok) => heap[last.ref].status = last.arg

\* setStatus('on-hold') has returned on a task that was completed: the task
\* is no longer completed
C27_Witness ==
    /\ last.op = "setStatus" /\ last.ok
    /\ last.arg = "on-hold"
    /\ ~heap[last.ref].completed
    /\ heap[last.ref].updatedAt > heap[last.ref].createdAt

\* C28: every entry of the repository's Map is stored under a key equal to
\* the id of the task it holds, so that findById(k) returns no task whose id
\* differs from k.
C28_KeyIsIdOfEntity ==
    \A i \in 1..Len(tasks) : heap[tasks[i].v].id = tasks[i].k

\* update(id, {id: another id}) has just succeeded on a stored task
C28_Witness ==
    /\ last.op = "update" /\ last.ok
    /\ "id" \in DOMAIN last.arg
    /\ last.arg.id # last.key
    /\ findById(last.key) = last.ref

\* the event create / update / deleteTask emits
EventOf(op) ==
    CASE op = "create" -> "taskAdded"
      [] op = "update" -> "taskUpdated"
      [] op = "deleteTask" -> "taskDeleted"

\* C29: a create / update / deleteTask that completes successfully calls the
\* listener registered for its event exactly once, and one that fails (it
\* rejects, or update returns null) calls no listener.
C29_ListenersCalledOnSuccessOnly ==
    [][last'.op \in {"create", "update", "deleteTask"} =>
          events' = IF last'.ok /\ EventOf(last'.op) \in listeners
                    THEN Append(events, [id |-> last'.key, event |-> EventOf(last'.op)])
                    ELSE events]_vars

\* a create has rejected, and the listener on 'taskAdded' was called with the
\* id of its task
C29_Witness ==
    /\ last.op = "create" /\ last.threw
    /\ events # <<>>
    /\ events[Len(events)] = [id |-> last.key, event |-> "taskAdded"]

\* C30: every per-user query of the service (all, pending, completed,
\* overdue, by priority, by category, search) returns only tasks whose owner
\* or assignee is the user it was called for.
C30_QueriesReturnOwnTasks ==
    last.op \in ServiceQueries =>
        LET result == ServiceResult(last.op, last.arg[1], last.arg[2])
        IN  \A i \in 1..Len(result) :
                result[i].userId = last.arg[1] \/ result[i].assignedTo = last.arg[1]

\* the overdue query was called for a user while the repository holds an
\* overdue task of another user and none of the user's own
C30_Witness ==
    /\ last.op = "getOverdueTasks"
    /\ \E i \in 1..Len(tasks) : /\ StoredTask(i).userId # last.arg[1]
                                /\ StoredTask(i).assignedTo # last.arg[1]
                                /\ StoredTask(i).dueDate # Null
                                /\ Val(StoredTask(i).dueDate) < now
                                /\ ~StoredTask(i).completed
    /\ \A i \in 1..Len(tasks) : StoredTask(i).userId = last.arg[1] => StoredTask(i).dueDate = Null

====
